---- MODULE Spec2Model ----
(***************************************************************************)
(* Material Takeoff AI: the batch analysis run of App.tsx (analyzePDFs,    *)
(* handleFileUpload, removeFile), the interpretation step of               *)
(* services/geminiService.ts (analyzePdfWithGemini) and the Python bridge  *)
(* of services/pythonBridge.ts (checkPythonAvailability,                   *)
(* validateAreaCalculation).                                               *)
(***************************************************************************)
EXTENDS Integers, Sequences, FiniteSets, TLC

(***************************************************************************)
(* Bounds of the model.                                                    *)
(***************************************************************************)
MaxFiles == 2

MaxUpload == 1

FileNames == {"a.pdf", "b.pdf"}

MaxAiArea == 180

\* arguments validateAreaCalculation is applied to
AiAreas == {-10} \cup 0..MaxAiArea

PythonTotals == {-100, 0, 25, 50, 100}

Tolerances == {7, 15, 20, 25}

(***************************************************************************)
(* State of the App component (useState hooks) and of one analyzePDFs      *)
(* invocation (its locals and the await it is suspended at).               *)
(***************************************************************************)
VARIABLES files, processing, results, error, analysisStage,
          runFiles, allResults, i, pc, pending, inflight, started,
          cancelRequested,
          vIn, vOut, vDone

vars == <<files, processing, results, error, analysisStage,
          runFiles, allResults, i, pc, pending, inflight, started,
          cancelRequested, vIn, vOut, vDone>>

appVars == <<files, processing, results, error, analysisStage>>

runVars == <<runFiles, allResults, i, pc, pending, inflight, started,
             cancelRequested>>

\* one call of validateAreaCalculation: its arguments, its result
valVars == <<vIn, vOut, vDone>>

(***************************************************************************)
(* Values.                                                                 *)
(***************************************************************************)
Null == "null"

NonPdfError == "Only PDF files are supported. Non-PDF files have been ignored."

AnalysisFailedError == "Analysis failed: Gemini API error"

UnknownError == "An unknown error occurred."

NoStage == ""

AnalyzingStage == "Analyzing file"

\* validation?: ValidationInfo; present = FALSE is the absent field, and the
\* recommendation "undefined" is a ValidationInfo without that optional field
NoValidation ==
  [present |-> FALSE, pythonUsed |-> FALSE, recommendation |-> "undefined",
   validationMessage |-> ""]

ValidationInfo(msg) ==
  [present |-> TRUE, pythonUsed |-> FALSE, recommendation |-> "undefined",
   validationMessage |-> msg]

\* what ai.models.generateContent can come back with
EngineResponses ==
  [kind : {"throws", "empty", "badjson"}, isRoofRelated : {FALSE}, totalArea : {0}]
  \cup [kind : {"json"}, isRoofRelated : BOOLEAN, totalArea : {0, 50}]

\* what the fetch of /api/python/health can come back with
ProbeOutcomes == {"unreachable", "nonok", "badjson", "notready", "ok"}

NoPending == [isRoofRelated |-> FALSE, totalArea |-> 0, probe |-> "none"]

(***************************************************************************)
(* services/pythonBridge.ts                                                *)
(***************************************************************************)
\* the result of an async call: a value, or a thrown error
Returned(v) == [threw |-> FALSE, value |-> v]

Thrown == [threw |-> TRUE, value |-> FALSE]

checkPythonAvailability(probe) ==
  IF probe = "unreachable" THEN Returned(FALSE)       \* fetch rejects: caught
  ELSE IF probe = "nonok" THEN Returned(FALSE)        \* !response.ok
  ELSE IF probe = "badjson" THEN Returned(FALSE)      \* response.json() rejects: caught
  ELSE Returned(probe = "ok")                         \* status === 'ok' && python === 'available'

(***************************************************************************)
(* IEEE-754 double arithmetic, as far as validateAreaCalculation needs it: *)
(* (difference / pythonArea) * 100 and the comparisons with integers.  A   *)
(* double is a sign, a 53-bit significand in three limbs (hi: 13 bits,     *)
(* mid and lo: 20 bits each) and a binary exponent:                        *)
(*   value = (-1)^sign * (hi * 2^40 + mid * 2^20 + lo) * 2^exp             *)
(* Areas are integers below 2^10 in absolute value.                        *)
(***************************************************************************)
Abs(x) == IF x < 0 THEN -x ELSE x

RECURSIVE Pow2(_)
Pow2(n) == IF n = 0 THEN 1 ELSE 2 * Pow2(n - 1)

HiBits == 13

LimbBits == 20

Limb == Pow2(LimbBits)

Double(sign, hi, mid, lo, exp) ==
  [sign |-> sign, hi |-> hi, mid |-> mid, lo |-> lo, exp |-> exp]

FZero == Double(0, 0, 0, 0, 0)

\* round to nearest, ties to even: up says the discarded part is above one
\* half of the last place, tie that it is exactly one half
RoundDouble(sign, hi, mid, lo, exp, up, tie) ==
  IF up \/ (tie /\ lo % 2 = 1)
    THEN LET lo1 == (lo + 1) % Limb
             c1 == (lo + 1) \div Limb
             mid1 == (mid + c1) % Limb
             c2 == (mid + c1) \div Limb
             hi1 == hi + c2
         IN IF hi1 = Pow2(HiBits)
              THEN Double(sign, Pow2(HiBits - 1), 0, 0, exp + 1)
              ELSE Double(sign, hi1, mid1, lo1, exp)
    ELSE Double(sign, hi, mid, lo, exp)

\* smallest s with d * 2^s >= a (0 < d < a)
RECURSIVE ShiftUp(_, _)
ShiftUp(d, a) == IF d >= a THEN 0 ELSE 1 + ShiftUp(2 * d, a)

\* largest s with a * 2^s <= d (d >= a > 0)
RECURSIVE ShiftDown(_, _)
ShiftDown(d, a) == IF 2 * a > d THEN 0 ELSE 1 + ShiftDown(d, 2 * a)

\* the double d / a for integers d >= 0 and a # 0
FDiv(d, a) ==
  LET sign == IF a < 0 THEN 1 ELSE 0
      aa == Abs(a)
  IN IF d = 0 THEN Double(sign, 0, 0, 0, 0)
     ELSE LET up == IF d < aa THEN ShiftUp(d, aa) ELSE 0
              down == IF d < aa THEN 0 ELSE ShiftDown(d, aa)
              num == d * Pow2(up)
              den == aa * Pow2(down)
              hi == (num * Pow2(HiBits - 1)) \div den
              r1 == (num * Pow2(HiBits - 1)) % den
              mid == (r1 * Limb) \div den
              r2 == (r1 * Limb) % den
              lo == (r2 * Limb) \div den
              r3 == (r2 * Limb) % den
          IN RoundDouble(sign, hi, mid, lo, down - up - 52, 2 * r3 > den, 2 * r3 = den)

\* number of bits of n >= 0
RECURSIVE BitLen(_)
BitLen(n) == IF n = 0 THEN 0 ELSE 1 + BitLen(n \div 2)

\* the double x * m for an integer 0 < m < 128
FMul(x, m) ==
  IF x.hi = 0 THEN x
  ELSE LET pl == (x.lo * m) % Limb
           c1 == (x.lo * m) \div Limb
           pm == (x.mid * m + c1) % Limb
           c2 == (x.mid * m + c1) \div Limb
           ph == x.hi * m + c2
           drop == BitLen(ph) - HiBits
           unit == Pow2(drop)
           gone == pl % unit
           lo == (pl \div unit) + (pm % unit) * (Limb \div unit)
           mid == (pm \div unit) + (ph % unit) * (Limb \div unit)
           hi == ph \div unit
       IN RoundDouble(x.sign, hi, mid, lo, x.exp + drop,
                      2 * gone > unit, drop > 0 /\ 2 * gone = unit)

\* x <= t for a double x and an integer 0 <= t < 2^30
FLeq(x, t) ==
  IF x.hi = 0 \/ x.sign = 1 THEN TRUE
  ELSE LET intBits == 53 + x.exp IN
       IF intBits <= 0 THEN t >= 1
       ELSE IF intBits > 30 THEN FALSE
       ELSE IF intBits <= HiBits
         THEN LET unit == Pow2(HiBits - intBits)
                  ip == x.hi \div unit
                  exact == x.hi % unit = 0 /\ x.mid = 0 /\ x.lo = 0
              IN ip < t \/ (ip = t /\ exact)
         ELSE LET unit == Pow2(HiBits + LimbBits - intBits)
                  ip == x.hi * (Limb \div unit) + x.mid \div unit
                  exact == x.mid % unit = 0 /\ x.lo = 0
              IN ip < t \/ (ip = t /\ exact)

\* x > t
FGt(x, t) == ~FLeq(x, t)

(***************************************************************************)
(* services/pythonBridge.ts, validateAreaCalculation                       *)
(***************************************************************************)
\* PythonAreaResult: total_area_m2 is optional (hasTotal = FALSE: undefined)
PythonAreaResult(success, hasTotal, total, rect) ==
  [success |-> success, hasTotal |-> hasTotal, total_area_m2 |-> total,
   is_simple_rectangle |-> rect]

UnavailableMessage == "Python calculation unavailable, using AI result"

ValidatedMessage == "AI calculation validated"

RectangleMessage == "Python detected simple rectangle. AI may have over-complicated."

SignificantMessage == "Significant difference. Recommend using Python result."

ReviewMessage == "Difference exceeds tolerance. Manual review recommended."

ValidationResult(isValid, pythonArea, difference, differencePercent, recommendation, message) ==
  [isValid |-> isValid, pythonArea |-> pythonArea, difference |-> difference,
   differencePercent |-> differencePercent, recommendation |-> recommendation,
   message |-> message]

\* lines 159-205: the comparison, once the Python result is usable
MutValidateCompared(aiArea, pythonResult, tolerancePercent) ==
  LET pythonArea == pythonResult.total_area_m2
      difference == Abs(aiArea - pythonArea)
      differencePercent == FMul(FDiv(difference, pythonArea), 100)
  IN IF FLeq(differencePercent, tolerancePercent)
       THEN ValidationResult(TRUE, pythonArea, difference, differencePercent,
                             "use_ai", ValidatedMessage)
     ELSE IF pythonResult.is_simple_rectangle /\ FGt(differencePercent, 20)
       THEN ValidationResult(FALSE, pythonArea, difference, differencePercent,
                             "use_python", RectangleMessage)
     ELSE IF ~pythonResult.is_simple_rectangle /\ FGt(differencePercent, 20)
       THEN ValidationResult(FALSE, pythonArea, difference, differencePercent,
                             "use_python", SignificantMessage)
     ELSE ValidationResult(FALSE, pythonArea, difference, differencePercent,
                           "manual_review", ReviewMessage)

\* a threshold of 19 in place of 20
MutSignificantDifference(differencePercent) == FGt(differencePercent, 19)

\* differencePercent > 20
SignificantDifference(differencePercent) == FGt(differencePercent, 20)

ValidateCompared(aiArea, pythonResult, tolerancePercent) ==
  LET pythonArea == pythonResult.total_area_m2
      difference == Abs(aiArea - pythonArea)
      differencePercent == FMul(FDiv(difference, pythonArea), 100)
  IN IF FLeq(differencePercent, tolerancePercent)
       THEN ValidationResult(TRUE, pythonArea, difference, differencePercent,
                             "use_ai", ValidatedMessage)
     ELSE IF pythonResult.is_simple_rectangle
       THEN ValidationResult(FALSE, pythonArea, difference, differencePercent,
                             "use_python", RectangleMessage)
     ELSE IF ~pythonResult.is_simple_rectangle /\ SignificantDifference(differencePercent)
       THEN ValidationResult(FALSE, pythonArea, difference, differencePercent,
                             "use_python", SignificantMessage)
     ELSE ValidationResult(FALSE, pythonArea, difference, differencePercent,
                           "manual_review", ReviewMessage)

\* !pythonResult.total_area_m2: undefined or 0
NoTotalArea(pythonResult) ==
  ~pythonResult.hasTotal \/ pythonResult.total_area_m2 = 0

\* a guard that tests success only: a missing or zero area then divides to
\* NaN or Infinity, which is never <= the tolerance
MutValidateAreaCalculation(aiArea, pythonResult, tolerancePercent) ==
  IF ~pythonResult.success
    THEN ValidationResult(TRUE, 0, 0, FZero, "use_ai", UnavailableMessage)
  ELSE IF NoTotalArea(pythonResult)
    THEN IF pythonResult.is_simple_rectangle
           THEN ValidationResult(FALSE, 0, Abs(aiArea), FZero, "use_python", RectangleMessage)
         ELSE IF pythonResult.hasTotal /\ aiArea # 0
           THEN ValidationResult(FALSE, 0, Abs(aiArea), FZero, "use_python", SignificantMessage)
         ELSE ValidationResult(FALSE, 0, Abs(aiArea), FZero, "manual_review", ReviewMessage)
  ELSE ValidateCompared(aiArea, pythonResult, tolerancePercent)

validateAreaCalculation(aiArea, pythonResult, tolerancePercent) ==
  IF ~pythonResult.success \/ NoTotalArea(pythonResult)
    THEN ValidationResult(TRUE, 0, 0, FZero, "use_ai", UnavailableMessage)
    ELSE ValidateCompared(aiArea, pythonResult, tolerancePercent)

PythonAreaResults ==
  {PythonAreaResult(s, TRUE, t, r) : s \in BOOLEAN, t \in PythonTotals, r \in BOOLEAN}
  \cup {PythonAreaResult(s, FALSE, 0, r) : s \in BOOLEAN, r \in BOOLEAN}

ValidateCalls ==
  [aiArea : AiAreas, pythonResult : PythonAreaResults, tolerancePercent : Tolerances]

NoCall ==
  [aiArea |-> 0, pythonResult |-> PythonAreaResult(FALSE, FALSE, 0, FALSE),
   tolerancePercent |-> 15]

NoResult == ValidationResult(FALSE, 0, 0, FZero, "none", "")

(***************************************************************************)
(* services/geminiService.ts, analyzePdfWithGemini after the response      *)
(***************************************************************************)
\* if (analysisResults.isRoofRelated && analysisResults.summary?.totalArea)
NeedsValidation(parsed) == parsed.isRoofRelated /\ parsed.totalArea # 0

\* the try/catch around the availability check (lines 179-208)
MutPythonValidation(avail) ==
  IF avail.threw THEN Thrown
  ELSE IF avail.value
    THEN Returned(ValidationInfo("Python validation available but requires server-side integration"))
    ELSE Thrown

PythonValidation(avail) ==
  IF avail.threw
    THEN Returned(ValidationInfo("Python validation failed - using AI-only result"))
  ELSE IF avail.value
    THEN Returned(ValidationInfo("Python validation available but requires server-side integration"))
    ELSE Returned(ValidationInfo("Python validation unavailable - install Python dependencies to enable"))

\* the response text is usable: non-empty and JSON.parse succeeds
ResponseOk(resp) == resp.kind = "json"

(***************************************************************************)
(* App.tsx                                                                 *)
(***************************************************************************)
ResultFile(name, parsed, validation) ==
  [fileName |-> name, isRoofRelated |-> parsed.isRoofRelated,
   totalArea |-> parsed.totalArea, validation |-> validation]

\* xs.filter((_, i) => i !== index), index counted from 0
RECURSIVE FilterIndex(_, _)
FilterIndex(xs, index) ==
  IF xs = <<>> THEN <<>>
  ELSE IF index = 0 THEN Tail(xs)
  ELSE <<Head(xs)>> \o FilterIndex(Tail(xs), index - 1)

\* uploadedFiles.filter(f => f.type === 'application/pdf')
RECURSIVE PdfFiles(_)
PdfFiles(up) ==
  IF up = <<>> THEN <<>>
  ELSE IF Head(up).pdf THEN <<Head(up).name>> \o PdfFiles(Tail(up))
  ELSE PdfFiles(Tail(up))

Uploads ==
  UNION {[1..n -> [name : FileNames, pdf : BOOLEAN]] : n \in 1..MaxUpload}

Init ==
  /\ files = <<>>
  /\ processing = FALSE
  /\ results = <<>>
  /\ error = Null
  /\ analysisStage = NoStage
  /\ runFiles = <<>>
  /\ allResults = <<>>
  /\ i = 0
  /\ pc = "idle"
  /\ pending = NoPending
  /\ inflight = <<>>
  /\ started = <<>>
  /\ cancelRequested = FALSE
  /\ vIn = NoCall
  /\ vOut = NoResult
  /\ vDone = FALSE

handleFileUpload ==
  \E up \in Uploads :
    LET pdfFiles == PdfFiles(up) IN
    /\ Len(files) + Len(pdfFiles) <= MaxFiles
    /\ error' = IF Len(pdfFiles) # Len(up) THEN NonPdfError ELSE Null
    /\ files' = IF Len(pdfFiles) > 0 THEN files \o pdfFiles ELSE files
    /\ results' = <<>>
    /\ UNCHANGED <<processing, analysisStage>>
    /\ UNCHANGED <<runVars, valVars>>

removeFile ==
  \E index \in 0..(Len(files) - 1) :
    /\ files' = FilterIndex(files, index)
    /\ results' = FilterIndex(results, index)
    /\ UNCHANGED <<processing, error, analysisStage>>
    /\ UNCHANGED <<runVars, valVars>>

\* the Analyze button is rendered only when files.length > 0 && !processing
MutCanAnalyze == Len(files) > 0

CanAnalyze == Len(files) > 0 /\ ~processing

\* the locals of analyzePDFs and of the analyzePdfWithGemini call it awaits
Frame(fs, rs, n, pend, st, cr) ==
  /\ runFiles' = fs
  /\ allResults' = rs
  /\ i' = n
  /\ pending' = pend
  /\ started' = st
  /\ cancelRequested' = cr

\* without the finally block a failed run leaves the processing flag set
MutReturn(outcome) ==
  /\ pc' = outcome
  /\ analysisStage' = NoStage
  /\ processing' = (outcome = "failed")
  /\ Frame(<<>>, <<>>, 0, NoPending, <<>>, FALSE)

\* analyzePDFs returns (finally { setProcessing(false) }); its locals are gone
Return(outcome) ==
  /\ pc' = outcome
  /\ analysisStage' = NoStage
  /\ processing' = FALSE
  /\ Frame(<<>>, <<>>, 0, NoPending, <<>>, FALSE)

\* the head of the for loop over fs with index n and list rs, up to the first
\* await of analyzePdfWithGemini; past the last file the function returns
LoopFrom(n, rs, fs, st, cr) ==
  IF n < Len(fs)
    THEN /\ analysisStage' = AnalyzingStage
         /\ processing' = TRUE
         /\ pc' = "awaitRead"
         /\ Frame(fs, rs, n, NoPending, st, cr)
    ELSE Return("completed")

analyzePDFs ==
  /\ CanAnalyze
  /\ error' = Null
  /\ results' = <<>>
  /\ LoopFrom(0, <<>>, files, <<>>, FALSE)
  /\ UNCHANGED <<files, inflight, valVars>>

\* catch (err) { setError(...); setAnalysisStage('') } finally { setProcessing(false) }
CatchError(msg) ==
  /\ error' = msg
  /\ Return("failed")
  /\ UNCHANGED <<files, results>>

\* the list is published before the record is pushed
MutPushAndContinue(parsed, validation) ==
  LET rs == Append(allResults, ResultFile(runFiles[i + 1], parsed, validation)) IN
  /\ results' = allResults
  /\ LoopFrom(i + 1, rs, runFiles, started, cancelRequested)
  /\ UNCHANGED <<files, error>>

\* allResults.push({fileName, ...analysisResults}); setResults([...allResults]); i++
PushAndContinue(parsed, validation) ==
  LET rs == Append(allResults, ResultFile(runFiles[i + 1], parsed, validation)) IN
  /\ results' = rs
  /\ LoopFrom(i + 1, rs, runFiles, started, cancelRequested)
  /\ UNCHANGED <<files, error>>

\* await Promise.all(allFiles.map(fileToBase64)) settles
ReadSettles ==
  /\ pc = "awaitRead"
  /\ \/ /\ CatchError(UnknownError)            \* a FileReader error event, not an Error
        /\ UNCHANGED inflight
     \/ /\ pc' = "awaitEngine"                 \* ai.models.generateContent is called
        /\ inflight' = Append(inflight, i)
        /\ started' = Append(started, i)
        /\ UNCHANGED <<appVars, runFiles, allResults, i, pending, cancelRequested>>
  /\ UNCHANGED valVars

\* await ai.models.generateContent(...) settles
EngineSettles ==
  /\ pc = "awaitEngine"
  /\ inflight # <<>>
  /\ inflight' = Tail(inflight)
  /\ \E resp \in EngineResponses :
       IF ~ResponseOk(resp)
         THEN CatchError(AnalysisFailedError)
       ELSE IF NeedsValidation(resp)
         THEN /\ pc' = "awaitProbe"        \* fetch of /api/python/health is sent
              /\ pending' = [isRoofRelated |-> resp.isRoofRelated,
                             totalArea |-> resp.totalArea, probe |-> "none"]
              /\ UNCHANGED <<appVars, runFiles, allResults, i, started, cancelRequested>>
         ELSE PushAndContinue(resp, NoValidation)
  /\ UNCHANGED valVars

\* the health request comes back (or fails)
ProbeResponds ==
  /\ pc = "awaitProbe"
  /\ \E probe \in ProbeOutcomes : pending' = [pending EXCEPT !.probe = probe]
  /\ pc' = "probed"
  /\ UNCHANGED <<appVars, runFiles, allResults, i, started, cancelRequested, inflight, valVars>>

\* await checkPythonAvailability() settles and analyzePdfWithGemini returns
ProbeSettles ==
  /\ pc = "probed"
  /\ LET v == PythonValidation(checkPythonAvailability(pending.probe)) IN
       IF v.threw
         THEN CatchError(AnalysisFailedError)
         ELSE PushAndContinue(pending, v.value)
  /\ UNCHANGED <<inflight, valVars>>

\* the user asks for the run to stop
RequestCancel ==
  /\ processing
  /\ ~cancelRequested
  /\ cancelRequested' = TRUE
  /\ UNCHANGED <<appVars, runFiles, allResults, i, pc, pending, inflight, started>>
  /\ UNCHANGED valVars

Next ==
  \/ handleFileUpload
  \/ removeFile
  \/ analyzePDFs
  \/ ReadSettles
  \/ EngineSettles
  \/ ProbeResponds
  \/ ProbeSettles
  \/ RequestCancel

Spec == Init /\ [][Next]_vars

\* every external call (file read, engine call, health probe) eventually
\* returns or fails, and the continuation after it runs
SpecLive ==
  /\ Init
  /\ [][Next]_vars
  /\ WF_vars(ReadSettles)
  /\ WF_vars(EngineSettles)
  /\ WF_vars(ProbeResponds)
  /\ WF_vars(ProbeSettles)

(***************************************************************************)
(* validateAreaCalculation applied to one set of arguments.                *)
(***************************************************************************)
InitValidate ==
  /\ files = <<>>
  /\ processing = FALSE
  /\ results = <<>>
  /\ error = Null
  /\ analysisStage = NoStage
  /\ runFiles = <<>>
  /\ allResults = <<>>
  /\ i = 0
  /\ pc = "idle"
  /\ pending = NoPending
  /\ inflight = <<>>
  /\ started = <<>>
  /\ cancelRequested = FALSE
  /\ vIn \in ValidateCalls
  /\ vOut = NoResult
  /\ vDone = FALSE

ValidateCall ==
  /\ ~vDone
  /\ vOut' = validateAreaCalculation(vIn.aiArea, vIn.pythonResult, vIn.tolerancePercent)
  /\ vDone' = TRUE
  /\ UNCHANGED <<vIn, appVars, runVars>>

NextValidate == ValidateCall

SpecValidate == InitValidate /\ [][NextValidate]_vars

TypeOK ==
  /\ processing \in BOOLEAN
  /\ Len(files) <= MaxFiles
  /\ pc \in {"idle", "awaitRead", "awaitEngine", "awaitProbe", "probed", "completed", "failed"}

(***************************************************************************)
(* Material names and their grouping key (App.tsx, getConsolidatedSummary). *)
(* A name is a sequence of characters over a small alphabet: a Latin       *)
(* letter in both cases, the space, and the Greek sigma in its three       *)
(* forms (capital, small, small final).                                    *)
(***************************************************************************)
MaxNameLen == 2

Chars == {"E", "e", " ", "SIGMA", "sigma", "final_sigma"}

\* characters with the Unicode property Cased
Cased == {"E", "e", "SIGMA", "sigma", "final_sigma"}

Names == UNION {[1..n -> Chars] : n \in 0..MaxNameLen}

\* Unicode condition Final_Sigma for the capital sigma at position k: it follows
\* a cased letter and is not followed by one (the alphabet has no
\* case-ignorable character)
FinalSigma(name, k) ==
  /\ k > 1
  /\ name[k - 1] \in Cased
  /\ k = Len(name) \/ name[k + 1] \notin Cased

\* String.prototype.toLowerCase: the Unicode default lower-case conversion
toLowerCase(name) ==
  [k \in 1..Len(name) |->
     IF name[k] = "E" THEN "e"
     ELSE IF name[k] = "SIGMA"
       THEN IF FinalSigma(name, k) THEN "final_sigma" ELSE "sigma"
     ELSE name[k]]

RECURSIVE trimStart(_)
trimStart(name) ==
  IF name # <<>> /\ Head(name) = " " THEN trimStart(Tail(name)) ELSE name

RECURSIVE trimEnd(_)
trimEnd(name) ==
  IF name # <<>> /\ name[Len(name)] = " "
    THEN trimEnd(SubSeq(name, 1, Len(name) - 1))
    ELSE name

\* String.prototype.trim
trim(name) == trimEnd(trimStart(name))

\* const key = m.material.toLowerCase().trim()
canonicalize(name) == trim(toLowerCase(name))

\* the state of the component before any user action
Idle ==
  /\ files = <<>>
  /\ processing = FALSE
  /\ results = <<>>
  /\ error = Null
  /\ analysisStage = NoStage
  /\ runFiles = <<>>
  /\ allResults = <<>>
  /\ i = 0
  /\ pc = "idle"
  /\ pending = NoPending
  /\ inflight = <<>>
  /\ started = <<>>
  /\ cancelRequested = FALSE

(***************************************************************************)
(* The grouping key computed for two names, and for the key of the first.  *)
(***************************************************************************)
NoKeys == [x |-> <<>>, y |-> <<>>, xx |-> <<>>]

InitCanonicalize ==
  /\ Idle
  /\ vIn \in [x : Names, y : Names]
  /\ vOut = NoKeys
  /\ vDone = FALSE

CanonicalizeCall ==
  /\ ~vDone
  /\ vOut' = [x |-> canonicalize(vIn.x), y |-> canonicalize(vIn.y),
              xx |-> canonicalize(canonicalize(vIn.x))]
  /\ vDone' = TRUE
  /\ UNCHANGED <<vIn, appVars, runVars>>

NextCanonicalize == CanonicalizeCall

SpecCanonicalize == InitCanonicalize /\ [][NextCanonicalize]_vars

(***************************************************************************)
(* App.tsx, getConsolidatedSummary.  The records of the result list carry  *)
(* what the function reads: fileName, isRoofRelated and materials.  A      *)
(* material entry is whatever JSON.parse returned: null, an object whose   *)
(* material is not a string, or an object with a string name; area and     *)
(* confidence may be missing.  Confidences are multiples of 1/4, so every  *)
(* sum and product below is exact in doubles; a confidence is kept as a    *)
(* fraction in lowest terms.  An absent materials field behaves as an      *)
(* empty list (materials?.forEach); code and unit are copied from the      *)
(* first entry and play no part in the arithmetic.                         *)
(***************************************************************************)
MaxDocs == 2

\* material entries in the whole result list
MaxRows == 3

Material(isObject, isString, material, hasArea, area, hasConfidence, confidence) ==
  [isObject |-> isObject, isString |-> isString, material |-> material,
   hasArea |-> hasArea, area |-> area,
   hasConfidence |-> hasConfidence, confidence |-> confidence]

\* confidences are counted in quarters
ConfidenceUnit == 4

MaterialEntries ==
  { Material(FALSE, FALSE, <<>>, FALSE, 0, FALSE, 0),              \* null
    Material(TRUE, FALSE, <<>>, TRUE, 50, TRUE, 4),                \* {area: 50, confidence: 1}
    Material(TRUE, TRUE, <<>>, TRUE, 50, TRUE, 2),                 \* material: ""
    Material(TRUE, TRUE, <<"E">>, TRUE, 50, TRUE, 3),              \* "E", 50, 0.75
    Material(TRUE, TRUE, <<" ", "e", " ">>, TRUE, 30, TRUE, 2),    \* " e ", 30, 0.5
    Material(TRUE, TRUE, <<"sigma">>, FALSE, 0, FALSE, 0) }        \* no area, no confidence

RECURSIVE GCD(_, _)
GCD(a, b) == IF b = 0 THEN a ELSE GCD(b, a % b)

\* the number num / den, in lowest terms
Ratio(num, den) ==
  LET g == GCD(num, den) IN [num |-> num \div g, den |-> den \div g]

\* m.area || 0
AreaOrZero(m) == IF m.hasArea THEN m.area ELSE 0

\* m.confidence || 0
ConfidenceOrZero(m) == IF m.hasConfidence THEN m.confidence ELSE 0

IsRoofRelated(r) == r.isRoofRelated

\* no filter: every record counts as relevant
MutRoofResults(rs) == rs

\* results.filter(r => r.isRoofRelated)
RoofResults(rs) == SelectSeq(rs, IsRoofRelated)

\* the weight is the number of sources after the append
MutMergedConfidence(existing, m) ==
  LET n == Len(existing.sources) + 1 IN
  Ratio(ConfidenceUnit * existing.confidence.num * n
          + ConfidenceOrZero(m) * existing.confidence.den,
        ConfidenceUnit * existing.confidence.den * (n + 1))

\* (existing.confidence * existing.sources.length + (m.confidence || 0))
\*   / (existing.sources.length + 1)
MergedConfidence(existing, m) ==
  LET n == Len(existing.sources) IN
  Ratio(ConfidenceUnit * existing.confidence.num * n
          + ConfidenceOrZero(m) * existing.confidence.den,
        ConfidenceUnit * existing.confidence.den * (n + 1))

\* the new source is put first
MutMergedSources(existing, fileName) == <<fileName>> \o existing.sources

\* sources: [...existing.sources, result.fileName]
MergedSources(existing, fileName) == Append(existing.sources, fileName)

\* materialMap.set(key, {...existing, area, confidence, sources})
MergedMaterial(existing, m, fileName) ==
  [material |-> existing.material,
   area |-> existing.area + AreaOrZero(m),
   confidence |-> MergedConfidence(existing, m),
   sources |-> MergedSources(existing, fileName)]

\* materialMap.set(key, {material, code, area, unit, confidence, sources})
NewMaterial(m, fileName) ==
  [material |-> m.material,
   area |-> AreaOrZero(m),
   confidence |-> Ratio(ConfidenceOrZero(m), ConfidenceUnit),
   sources |-> <<fileName>>]

\* the position of key in the map (a Map keeps insertion order), 0 if absent
MapIndex(materialMap, key) ==
  IF \E k \in 1..Len(materialMap) : materialMap[k].key = key
    THEN CHOOSE k \in 1..Len(materialMap) : materialMap[k].key = key
    ELSE 0

\* the body of result.materials?.forEach(m => ...)
AddMaterial(materialMap, m, fileName) ==
  IF ~m.isObject \/ ~m.isString
    THEN materialMap
    ELSE LET key == canonicalize(m.material)
             k == MapIndex(materialMap, key)
         IN IF k # 0
              THEN [materialMap EXCEPT ![k].value = MergedMaterial(@, m, fileName)]
              ELSE Append(materialMap, [key |-> key, value |-> NewMaterial(m, fileName)])

RECURSIVE ForEachMaterial(_, _, _)
ForEachMaterial(materialMap, materials, fileName) ==
  IF materials = <<>> THEN materialMap
  ELSE ForEachMaterial(AddMaterial(materialMap, Head(materials), fileName),
                       Tail(materials), fileName)

RECURSIVE ForEachResult(_, _)
ForEachResult(materialMap, roofResults) ==
  IF roofResults = <<>> THEN materialMap
  ELSE ForEachResult(ForEachMaterial(materialMap, Head(roofResults).materials,
                                     Head(roofResults).fileName),
                     Tail(roofResults))

\* consolidatedMaterials.reduce((acc, m) => acc + m.area, 0)
RECURSIVE ReduceArea(_)
ReduceArea(ms) == IF ms = <<>> THEN 0 ELSE ReduceArea(SubSeq(ms, 1, Len(ms) - 1)) + ms[Len(ms)].area

\* both counts are the number of relevant records
MutPlanCounts(rs, roofResults) == [roof |-> Len(roofResults), total |-> Len(roofResults)]

\* roofPlanCount: roofResults.length, totalPlanCount: results.length
PlanCounts(rs, roofResults) == [roof |-> Len(roofResults), total |-> Len(rs)]

NullSummary ==
  [isNull |-> TRUE, materials |-> <<>>, totalArea |-> 0,
   roofPlanCount |-> 0, totalPlanCount |-> 0]

getConsolidatedSummary(rs) ==
  LET roofResults == RoofResults(rs) IN
  IF Len(roofResults) = 0 THEN NullSummary
  ELSE LET materialMap == ForEachResult(<<>>, roofResults)
           consolidatedMaterials == [k \in 1..Len(materialMap) |-> materialMap[k].value]
           counts == PlanCounts(rs, roofResults)
       IN [isNull |-> FALSE,
           materials |-> consolidatedMaterials,
           totalArea |-> ReduceArea(consolidatedMaterials),
           roofPlanCount |-> counts.roof,
           totalPlanCount |-> counts.total]

(***************************************************************************)
(* getConsolidatedSummary applied to one result list.  The list is built   *)
(* from a sequence of material entries cut into consecutive documents.     *)
(***************************************************************************)
\* the file name of the k-th record
FileNameOf(k) == IF k = 1 THEN "a.pdf" ELSE "b.pdf"

\* the end positions of d consecutive pieces of a sequence of length n
Cuts(d, n) ==
  {c \in [1..d -> 0..n] :
     /\ \A k \in 1..(d - 1) : c[k] <= c[k + 1]
     /\ d > 0 => c[d] = n}

ResultList(rows, cuts, flags) ==
  [k \in 1..Len(flags) |->
     [fileName |-> FileNameOf(k),
      isRoofRelated |-> flags[k],
      materials |-> SubSeq(rows, IF k = 1 THEN 1 ELSE cuts[k - 1] + 1, cuts[k])]]

\* results is a list whose material entries are taken from entries
ResultsOver(entries) ==
  \E n \in 0..MaxRows : \E rows \in [1..n -> entries] :
    \E d \in 0..MaxDocs : \E cuts \in Cuts(d, n) : \E flags \in [1..d -> BOOLEAN] :
      /\ d = 0 => n = 0
      /\ results = ResultList(rows, cuts, flags)

InitConsolidate ==
  /\ files = <<>>
  /\ processing = FALSE
  /\ ResultsOver(MaterialEntries)
  /\ error = Null
  /\ analysisStage = NoStage
  /\ runFiles = <<>>
  /\ allResults = <<>>
  /\ i = 0
  /\ pc = "completed"
  /\ pending = NoPending
  /\ inflight = <<>>
  /\ started = <<>>
  /\ cancelRequested = FALSE
  /\ vIn = NoCall
  /\ vOut = NullSummary
  /\ vDone = FALSE

ConsolidateCall ==
  /\ ~vDone
  /\ vOut' = getConsolidatedSummary(results)
  /\ vDone' = TRUE
  /\ UNCHANGED <<vIn, appVars, runVars>>

NextConsolidate == ConsolidateCall

SpecConsolidate == InitConsolidate /\ [][NextConsolidate]_vars

(***************************************************************************)
(* services/geminiService.ts, analyzePdfWithGemini: the parts sent to the  *)
(* engine.  A part built from a file carries the index of that file next   *)
(* to its data, so that two files with the same content stay apart.        *)
(***************************************************************************)
MaxBatch == 4

\* fileToBase64(file)
fileToBase64(file) == [base64 |-> file]

\* { inlineData: { mimeType: 'application/pdf', data: allBase64[i] } }
InlineData(allBase64, index) ==
  [inlineData |-> TRUE, source |-> index, data |-> allBase64[index + 1]]

\* { text: fullPrompt }
TextPart == [inlineData |-> FALSE, source |-> -1, data |-> [base64 |-> "fullPrompt"]]

\* xs.filter(i => i !== targetIndex)
RECURSIVE FilterNot(_, _)
FilterNot(xs, targetIndex) ==
  IF xs = <<>> THEN <<>>
  ELSE IF Head(xs) = targetIndex THEN FilterNot(Tail(xs), targetIndex)
  ELSE <<Head(xs)>> \o FilterNot(Tail(xs), targetIndex)

\* every index is kept
MutReferenceIndices(allFiles, targetIndex) == [k \in 1..Len(allFiles) |-> k - 1]

\* allFiles.map((_, i) => i).filter(i => i !== targetIndex)
referenceIndices(allFiles, targetIndex) ==
  FilterNot([k \in 1..Len(allFiles) |-> k - 1], targetIndex)

\* const parts = [...referenceIndices.map(...), {inlineData: target}, {text}]
parts(allFiles, targetIndex) ==
  LET allBase64 == [k \in 1..Len(allFiles) |-> fileToBase64(allFiles[k])]
      refs == referenceIndices(allFiles, targetIndex)
  IN [k \in 1..Len(refs) |-> InlineData(allBase64, refs[k])]
       \o <<InlineData(allBase64, targetIndex), TextPart>>

\* the calls analyzePDFs makes: i from 0 to files.length - 1
PartsCalls ==
  UNION {[allFiles : [1..n -> FileNames], targetIndex : 0..(n - 1)] : n \in 1..MaxBatch}

InitParts ==
  /\ Idle
  /\ vIn \in PartsCalls
  /\ vOut = <<>>
  /\ vDone = FALSE

PartsCall ==
  /\ ~vDone
  /\ vOut' = parts(vIn.allFiles, vIn.targetIndex)
  /\ vDone' = TRUE
  /\ UNCHANGED <<vIn, appVars, runVars>>

NextParts == PartsCall

SpecParts == InitParts /\ [][NextParts]_vars

(***************************************************************************)
(* App.tsx with sequential context (contextMode): analyzePDFs builds a     *)
(* contextSummary from the records produced so far and passes it to        *)
(* analyzePdfWithGemini.  vIn holds the contextMode state the run closed   *)
(* over, vOut the local contextSummary: the empty sequence is '', and      *)
(* otherwise it has one element per "Document n: ..." block.               *)
(***************************************************************************)
MaxContextFiles == 3

\* what the engine returns for one document, or a failure
ContextResponses ==
  [kind : {"json"}, isRoofRelated : BOOLEAN, materials : {<<>>, <<"E">>, <<"E", "e">>}]
    \cup {[kind |-> "throws", isRoofRelated |-> FALSE, materials |-> <<>>]}

\* allResults.push({fileName: file.name, ...analysisResults})
ContextResultFile(name, resp) ==
  [fileName |-> name, isRoofRelated |-> resp.isRoofRelated,
   documentType |-> "plan", scale |-> "1:100", materials |-> resp.materials]

\* the lines added for prevResult, the idx-th relevant record (idx from 0)
DocumentBlock(prevResult, idx) ==
  [document |-> idx + 1,
   fileName |-> prevResult.fileName,
   documentType |-> prevResult.documentType,
   scale |-> prevResult.scale,
   materialsFound |-> prevResult.materials]

\* every record produced so far is summarised, relevant or not
MutRoofRelatedResults(rs) == rs

\* allResults.filter(r => r.isRoofRelated)
RoofRelatedResults(rs) == SelectSeq(rs, IsRoofRelated)

\* lines 62-77: the contextSummary passed on for the next document, given the
\* one of the previous iteration
NextContextSummary(contextMode, contextSummary, rs) ==
  IF contextMode /\ Len(rs) > 0
    THEN LET roofRelatedResults == RoofRelatedResults(rs) IN
         IF Len(roofRelatedResults) > 0
           THEN [k \in 1..Len(roofRelatedResults) |->
                   DocumentBlock(roofRelatedResults[k], k - 1)]
           ELSE contextSummary
    ELSE contextSummary

\* the head of the for loop up to await analyzePdfWithGemini(file, ...)
ContextLoopFrom(n, rs, fs, contextSummary) ==
  IF n < Len(fs)
    THEN /\ analysisStage' = AnalyzingStage
         /\ processing' = TRUE
         /\ pc' = "awaitEngine"
         /\ vOut' = NextContextSummary(vIn.contextMode, contextSummary, rs)
         /\ Frame(fs, rs, n, NoPending, <<>>, FALSE)
    ELSE /\ vOut' = <<>>
         /\ Return("completed")

analyzePDFsInContext ==
  /\ CanAnalyze
  /\ error' = Null
  /\ results' = <<>>
  /\ ContextLoopFrom(0, <<>>, files, <<>>)
  /\ UNCHANGED <<files, inflight, vIn, vDone>>

\* await analyzePdfWithGemini(file, contextFiles, contextSummary) settles
ContextEngineSettles ==
  /\ pc = "awaitEngine"
  /\ \E resp \in ContextResponses :
       IF resp.kind = "throws"
         THEN /\ CatchError(AnalysisFailedError)
              /\ vOut' = <<>>
         ELSE LET rs == Append(allResults, ContextResultFile(runFiles[i + 1], resp)) IN
              /\ results' = rs
              /\ ContextLoopFrom(i + 1, rs, runFiles, vOut)
              /\ UNCHANGED <<files, error>>
  /\ UNCHANGED <<inflight, vIn, vDone>>

InitContext ==
  /\ \E n \in 1..MaxContextFiles : files \in [1..n -> FileNames]
  /\ processing = FALSE
  /\ results = <<>>
  /\ error = Null
  /\ analysisStage = NoStage
  /\ runFiles = <<>>
  /\ allResults = <<>>
  /\ i = 0
  /\ pc = "idle"
  /\ pending = NoPending
  /\ inflight = <<>>
  /\ started = <<>>
  /\ cancelRequested = FALSE
  /\ vIn \in [contextMode : BOOLEAN]
  /\ vOut = <<>>
  /\ vDone = FALSE

NextContext ==
  \/ analyzePDFsInContext
  \/ ContextEngineSettles

SpecContext == InitContext /\ [][NextContext]_vars

(***************************************************************************)
(* services/geminiService.ts, analyzePdfWithGemini: from response.text to  *)
(* the parsed analysisResults, before the validation record is attached.   *)
(* A response text is empty, not JSON, the JSON null, or a JSON object     *)
(* with some of the fields of AnalysisResult (totalArea and materialCount  *)
(* are the fields of summary).                                             *)
(***************************************************************************)
AnalysisResultFields ==
  {"isRoofRelated", "documentType", "language", "scale", "materials",
   "totalArea", "materialCount"}

ResponseTexts ==
  [text : {"empty", "notjson", "null"}, fields : {{}}]
    \cup [text : {"object"}, fields : SUBSET AnalysisResultFields]

\* JSON.parse(responseText)
JSONParse(responseText) ==
  IF responseText.text = "notjson" THEN Thrown        \* SyntaxError
  ELSE Returned([isNull |-> responseText.text = "null", fields |-> responseText.fields])

\* lines 170-176 and the outer catch (213-219), which rethrows every error
ParseResponse(responseText) ==
  IF responseText.text = "empty" THEN Thrown          \* 'API returned an empty response.'
  ELSE LET parsed == JSONParse(responseText) IN
       IF parsed.threw THEN Thrown
       ELSE IF parsed.value.isNull THEN Thrown        \* TypeError: analysisResults.isRoofRelated
       ELSE parsed

NoParse == [threw |-> FALSE, value |-> [isNull |-> TRUE, fields |-> {}]]

InitParse ==
  /\ Idle
  /\ vIn \in ResponseTexts
  /\ vOut = NoParse
  /\ vDone = FALSE

ParseCall ==
  /\ ~vDone
  /\ vOut' = ParseResponse(vIn)
  /\ vDone' = TRUE
  /\ UNCHANGED <<vIn, appVars, runVars>>

NextParse == ParseCall

SpecParse == InitParse /\ [][NextParse]_vars

(***************************************************************************)
(* App.tsx, exportToCSV.  The file is kept as its lines before             *)
(* join('\n'), each line as its cells; a cell is the String() of a value,  *)
(* put in double quotes.  The entries are objects: a null entry makes the  *)
(* rendering of the result list throw before anything can be exported.     *)
(***************************************************************************)
\* String(cell) of a number that may be missing
StringOfNumber(has, n) == IF has THEN [text |-> "number", number |-> n]
                          ELSE [text |-> "undefined", number |-> 0]

\* String(m.material): a string as it is
StringOfName(m) == IF m.isString THEN m.material ELSE <<"undefined">>

\* rows.push([m.code || '', m.material, m.area, m.unit, m.confidence,
\*            m.notes || '', result.fileName])
CsvRow(m, fileName) ==
  [code |-> "", material |-> StringOfName(m),
   area |-> StringOfNumber(m.hasArea, m.area), unit |-> "undefined",
   confidence |-> StringOfNumber(m.hasConfidence, m.confidence),
   notes |-> "", fileName |-> fileName]

\* only the first entry of a document is exported
MutCsvRowsOf(result) ==
  IF result.materials = <<>> THEN <<>>
  ELSE <<CsvRow(result.materials[1], result.fileName)>>

\* result.materials?.forEach(m => rows.push(...))
CsvRowsOf(result) ==
  [k \in 1..Len(result.materials) |-> CsvRow(result.materials[k], result.fileName)]

RECURSIVE CsvRows(_)
CsvRows(roofResults) ==
  IF roofResults = <<>> THEN <<>>
  ELSE CsvRowsOf(Head(roofResults)) \o CsvRows(Tail(roofResults))

CsvHeaders == <<"Code", "Material", "Area (m2)", "Unit", "Confidence", "Notes", "File Name">>

NoCsv == [exported |-> FALSE, headers |-> <<>>, rows |-> <<>>]

exportToCSV(rs) ==
  IF Len(rs) = 0 THEN NoCsv
  ELSE [exported |-> TRUE, headers |-> CsvHeaders, rows |-> CsvRows(RoofResults(rs))]

ObjectEntries == {m \in MaterialEntries : m.isObject}

InitExport ==
  /\ files = <<>>
  /\ processing = FALSE
  /\ ResultsOver(ObjectEntries)
  /\ error = Null
  /\ analysisStage = NoStage
  /\ runFiles = <<>>
  /\ allResults = <<>>
  /\ i = 0
  /\ pc = "completed"
  /\ pending = NoPending
  /\ inflight = <<>>
  /\ started = <<>>
  /\ cancelRequested = FALSE
  /\ vIn = NoCall
  /\ vOut = NoCsv
  /\ vDone = FALSE

ExportCall ==
  /\ ~vDone
  /\ vOut' = exportToCSV(results)
  /\ vDone' = TRUE
  /\ UNCHANGED <<vIn, appVars, runVars>>

NextExport == ExportCall

SpecExport == InitExport /\ [][NextExport]_vars

(***************************************************************************)
(* getConsolidatedSummary called again and again on one result list, as    *)
(* every rendering of the component does.  vOut lists the summaries        *)
(* returned so far, vIn is the Map the latest invocation left behind.      *)
(***************************************************************************)
MaxCalls == 2

\* requests the backend serves at the same time
MaxRequests == 2

\* the Map is kept from one invocation to the next
MutNewMap(left) == left

\* const materialMap = new Map()
NewMap(left) == <<>>

\* lines 145-153, for the Map the loops have filled
SummaryOf(rs, roofResults, materialMap) ==
  LET consolidatedMaterials == [k \in 1..Len(materialMap) |-> materialMap[k].value]
      counts == PlanCounts(rs, roofResults)
  IN [isNull |-> FALSE,
      materials |-> consolidatedMaterials,
      totalArea |-> ReduceArea(consolidatedMaterials),
      roofPlanCount |-> counts.roof,
      totalPlanCount |-> counts.total]

InitRecompute ==
  /\ files = <<>>
  /\ processing = FALSE
  /\ ResultsOver(MaterialEntries)
  /\ error = Null
  /\ analysisStage = NoStage
  /\ runFiles = <<>>
  /\ allResults = <<>>
  /\ i = 0
  /\ pc = "completed"
  /\ pending = NoPending
  /\ inflight = <<>>
  /\ started = <<>>
  /\ cancelRequested = FALSE
  /\ vIn = <<>>
  /\ vOut = <<>>
  /\ vDone = FALSE

RecomputeCall ==
  /\ Len(vOut) < MaxCalls
  /\ LET roofResults == RoofResults(results) IN
       IF Len(roofResults) = 0
         THEN /\ vOut' = Append(vOut, NullSummary)
              /\ vIn' = vIn
         ELSE LET materialMap == ForEachResult(NewMap(vIn), roofResults) IN
              /\ vOut' = Append(vOut, SummaryOf(results, roofResults, materialMap))
              /\ vIn' = materialMap
  /\ UNCHANGED <<vDone, appVars, runVars>>

NextRecompute == RecomputeCall

SpecRecompute == InitRecompute /\ [][NextRecompute]_vars

(***************************************************************************)
(* Properties of the batch run.                                            *)
(***************************************************************************)
Awaiting == {"awaitRead", "awaitEngine", "awaitProbe", "probed"}

\* the step in which the record of the document at index i is appended
DocSucceeds == pc \in Awaiting /\ (i' = i + 1 \/ pc' = "completed")

\* the step in which analyzePdfWithGemini throws for the document at index i
DocFails == pc \in Awaiting /\ pc' = "failed"

\* the step in which the engine call for the document at index i fails
EngineFails == pc = "awaitEngine" /\ pc' = "failed"

InBatchOrder(rs) ==
  \A k \in 1..Len(rs) : k <= Len(runFiles) /\ rs[k].fileName = runFiles[k]

C1_ListInv ==
  pc \in Awaiting =>
    /\ i < Len(runFiles)
    /\ Len(allResults) = i
    /\ InBatchOrder(allResults)

C1_Step ==
  /\ DocSucceeds =>
       /\ Len(results') = i + 1
       /\ SubSeq(results', 1, i) = allResults
       /\ results'[i + 1].fileName = runFiles[i + 1]
       /\ pc' \in Awaiting => allResults' = results'
       /\ pc' = "completed" => i + 1 = Len(runFiles)
  /\ DocFails =>
       /\ results' = results
       /\ error' # Null

\* C1: while a run is at index i its list holds exactly the records of documents
\* 0..i-1 in batch order; the step that completes document i appends one record
\* for it and publishes the list of length i+1; the step in which document i
\* fails appends nothing, so the list keeps length i.
C1_Theorem == []C1_ListInv /\ [][C1_Step]_vars

C1_Witness ==
  /\ pc = "failed"
  /\ error = AnalysisFailedError
  /\ Len(files) = 2
  /\ Len(results) = 1
  /\ results[1].fileName = files[1]

\* C2: when the engine fails on document k the published list is exactly the k
\* records produced before, an error is set, and no later document is started.
C2_Claim ==
  /\ [][EngineFails => /\ results' = allResults
                       /\ Len(results') = i
                       /\ error' # Null
                       /\ inflight' = <<>>]_vars
  /\ [](pc = "failed" => inflight = <<>> /\ started = <<>>)

C3_Inv ==
  /\ Len(inflight) <= 1
  /\ inflight # <<>> => pc = "awaitEngine" /\ inflight[1] = i /\ Len(allResults) = i
  /\ \A k \in 1..Len(started) : started[k] = k - 1
  /\ Len(started) <= i + 1

C3_Step ==
  Len(inflight') > Len(inflight) =>
    /\ inflight = <<>>
    /\ inflight' = <<Len(allResults)>>
    /\ started' = Append(started, Len(started))
    /\ Len(started) = Len(allResults)

\* C3: at most one engine call is in flight; calls are started in index order
\* 0, 1, 2, ..., and the call for a document starts only when the records of
\* all documents before it have been appended and no call is in flight.
C3_Theorem == []C3_Inv /\ [][C3_Step]_vars

C3_Witness ==
  /\ inflight = <<1>>
  /\ started = <<0, 1>>
  /\ Len(allResults) = 1

\* C4: once cancellation has been requested, the step that completes a document
\* starts no further document, and the run ends without an error.
C4_Claim ==
  [][cancelRequested /\ DocSucceeds => pc' = "completed" /\ error' = error]_vars

ProbeFailures == {"unreachable", "nonok", "badjson", "notready"}

\* the step in which checkPythonAvailability settles for the document at index i
ProbeStep == pc = "probed" /\ pc' # "probed"

\* C5: when the availability probe fails in any way, the run does not fail: the
\* record of the document is appended and published, with a validation record
\* that has pythonUsed = false.
C5_Theorem ==
  [][ProbeStep /\ pending.probe \in ProbeFailures =>
       /\ pc' # "failed"
       /\ error' = error
       /\ Len(results') = i + 1
       /\ SubSeq(results', 1, i) = allResults
       /\ results'[i + 1].fileName = runFiles[i + 1]
       /\ results'[i + 1].validation.present
       /\ ~results'[i + 1].validation.pythonUsed]_vars

C5_Witness ==
  /\ pc = "completed"
  /\ error = Null
  /\ Len(results) = 1
  /\ results[1].validation.present
  /\ ~results[1].validation.pythonUsed
  /\ results[1].validation.validationMessage =
       "Python validation unavailable - install Python dependencies to enable"

\* C6: every validation record in the result list with pythonUsed = false has
\* recommendation use_ai.
C6_Claim ==
  \A k \in 1..Len(results) :
    results[k].validation.present /\ ~results[k].validation.pythonUsed
      => results[k].validation.recommendation = "use_ai"

\* C7: while a run is in progress the published list changes only by the run
\* publishing it extended by one record.
C7_Claim ==
  [][processing /\ results' # results =>
       /\ DocSucceeds
       /\ Len(results') = Len(results) + 1
       /\ SubSeq(results', 1, Len(results)) = results]_vars

(***************************************************************************)
(* Properties of validateAreaCalculation.                                  *)
(***************************************************************************)
\* a usable secondary estimate with positive area
ValidSecondary(pr) == pr.success /\ pr.hasTotal /\ pr.total_area_m2 > 0

\* 100 * |primary - secondary| / secondary <= t, in exact arithmetic
PercentDeltaLeq(call, t) ==
  100 * Abs(call.aiArea - call.pythonResult.total_area_m2)
    <= t * call.pythonResult.total_area_m2

\* C8: with a Python result that is unsuccessful or has a missing or zero area,
\* the recommendation is use_ai and the result says the Python calculation is
\* unavailable, for every AI area and every tolerance.
C8_Theorem ==
  vDone /\ (~vIn.pythonResult.success \/ ~vIn.pythonResult.hasTotal
            \/ vIn.pythonResult.total_area_m2 = 0)
    => /\ vOut.recommendation = "use_ai"
       /\ vOut.message = UnavailableMessage
       /\ vOut.pythonArea = 0
       /\ vOut.isValid

C8_Witness ==
  /\ vDone
  /\ vIn.pythonResult.success
  /\ vIn.pythonResult.hasTotal
  /\ vIn.pythonResult.total_area_m2 = 0
  /\ vIn.aiArea = 100
  /\ vOut.recommendation = "use_ai"

\* C9: for a valid secondary estimate with positive area, whenever
\* 100 * |primary - secondary| / secondary <= tolerance (boundary included) the
\* recommendation is use_ai, whatever the shape flag.
C9_Claim ==
  vDone /\ ValidSecondary(vIn.pythonResult) /\ PercentDeltaLeq(vIn, vIn.tolerancePercent)
    => vOut.recommendation = "use_ai"

\* C10: for a valid secondary estimate whose percent difference exceeds the
\* tolerance and whose shape is a simple rectangle, the recommendation is
\* use_python, also when the difference is between the tolerance and 20.
C10_Theorem ==
  vDone /\ ValidSecondary(vIn.pythonResult) /\ ~PercentDeltaLeq(vIn, vIn.tolerancePercent)
        /\ vIn.pythonResult.is_simple_rectangle
    => vOut.recommendation = "use_python" /\ vOut.message = RectangleMessage

C10_Witness ==
  /\ vDone
  /\ vIn.aiArea = 117
  /\ vIn.pythonResult = PythonAreaResult(TRUE, TRUE, 100, TRUE)
  /\ vIn.tolerancePercent = 15
  /\ vOut.recommendation = "use_python"

\* 100 * |primary - secondary| / secondary > t, in exact arithmetic
PercentDeltaGt(call, t) == ~PercentDeltaLeq(call, t)

\* C11: for a valid secondary estimate whose percent difference exceeds the
\* tolerance and whose shape is not a simple rectangle, the recommendation is
\* use_python when the percent difference exceeds 20 and manual_review
\* otherwise; a percent difference of exactly 20 gives manual_review.
C11_Theorem ==
  vDone /\ ValidSecondary(vIn.pythonResult) /\ PercentDeltaGt(vIn, vIn.tolerancePercent)
        /\ ~vIn.pythonResult.is_simple_rectangle
    => IF PercentDeltaGt(vIn, 20)
         THEN vOut.recommendation = "use_python" /\ vOut.message = SignificantMessage
         ELSE vOut.recommendation = "manual_review" /\ vOut.message = ReviewMessage

C11_Witness ==
  /\ vDone
  /\ vIn.aiArea = 120
  /\ vIn.pythonResult = PythonAreaResult(TRUE, TRUE, 100, FALSE)
  /\ vIn.tolerancePercent = 15
  /\ vOut.recommendation = "manual_review"

(***************************************************************************)
(* Properties of the grouping key.                                         *)
(***************************************************************************)
\* the lower-case form of a letter taken alone: the capital and the small
\* form of a letter have the same one
CaseFold(c) ==
  IF c = "E" THEN "e"
  ELSE IF c = "SIGMA" THEN "sigma"
  ELSE c

\* x and y differ only by letter case or surrounding whitespace
SameUpToCaseAndSpace(x, y) ==
  LET tx == trim(x)
      ty == trim(y)
  IN /\ Len(tx) = Len(ty)
     /\ \A k \in 1..Len(tx) : CaseFold(tx[k]) = CaseFold(ty[k])

C19_Idempotent == vDone => vOut.xx = vOut.x

\* C19: names that differ only by letter case or surrounding whitespace have
\* the same key, and the key of a key is that key.
C19_Claim ==
  /\ vDone /\ SameUpToCaseAndSpace(vIn.x, vIn.y) => vOut.x = vOut.y
  /\ C19_Idempotent

(***************************************************************************)
(* Properties of getConsolidatedSummary.                                   *)
(***************************************************************************)
\* the material entries of the relevant records, in document order and then
\* material order, each with the name of its document
RECURSIVE RowsOf(_)
RowsOf(rs) ==
  IF rs = <<>> THEN <<>>
  ELSE LET r == Head(rs) IN
       (IF r.isRoofRelated
          THEN [k \in 1..Len(r.materials) |-> [fileName |-> r.fileName, m |-> r.materials[k]]]
          ELSE <<>>) \o RowsOf(Tail(rs))

\* an entry whose name is a non-empty string
ValidEntry(m) == m.isObject /\ m.isString /\ m.material # <<>>

\* an entry whose name is a string
NamedEntry(m) == m.isObject /\ m.isString

ValidRow(row) == ValidEntry(row.m)

NamedRow(row) == NamedEntry(row.m)

RECURSIVE SumAreas(_)
SumAreas(rows) ==
  IF rows = <<>> THEN 0 ELSE AreaOrZero(Head(rows).m) + SumAreas(Tail(rows))

RECURSIVE SumConfidences(_)
SumConfidences(rows) ==
  IF rows = <<>> THEN 0 ELSE ConfidenceOrZero(Head(rows).m) + SumConfidences(Tail(rows))

\* the rows of the list that are valid and have the key of cm
ValidRowsOf(cm) ==
  LET HasKey(row) == ValidRow(row) /\ canonicalize(row.m.material) = canonicalize(cm.material)
  IN SelectSeq(RowsOf(results), HasKey)

\* the rows of the list that have a string name with the key of cm
NamedRowsOf(cm) ==
  LET HasKey(row) == NamedRow(row) /\ canonicalize(row.m.material) = canonicalize(cm.material)
  IN SelectSeq(RowsOf(results), HasKey)

Range(f) == {f[k] : k \in DOMAIN f}

SummaryKeys == {canonicalize(cm.material) : cm \in Range(vOut.materials)}

SummaryReturned == vDone /\ ~vOut.isNull

ValidKeys ==
  {canonicalize(row.m.material) : row \in {r \in Range(RowsOf(results)) : ValidRow(r)}}

\* C12: the summary holds exactly one consolidated material per distinct key
\* occurring among the valid entries of relevant documents, and no two
\* consolidated materials share a key.
C12_Claim ==
  SummaryReturned =>
    /\ SummaryKeys = ValidKeys
    /\ Cardinality(SummaryKeys) = Len(vOut.materials)

\* C13: the area of each consolidated material is the sum of the areas of the
\* valid entries of relevant documents with its key, and the total area of the
\* summary is the sum of the areas of all valid entries of relevant documents.
C13_Claim ==
  SummaryReturned =>
    /\ \A cm \in Range(vOut.materials) : cm.area = SumAreas(ValidRowsOf(cm))
    /\ vOut.totalArea = ReduceArea(vOut.materials)
    /\ vOut.totalArea = SumAreas(SelectSeq(RowsOf(results), ValidRow))

\* the fraction SumConfidences(rows) / Len(rows), in lowest terms
MeanConfidence(rows) == Ratio(SumConfidences(rows), ConfidenceUnit * Len(rows))

\* C14: the confidence of a consolidated material is the arithmetic mean of the
\* confidences (or 0) of the entries merged under its key, each entry counting
\* once, also when one document contributes two of them.
C14_Theorem ==
  SummaryReturned =>
    \A cm \in Range(vOut.materials) :
      /\ Len(cm.sources) = Len(NamedRowsOf(cm))
      /\ cm.confidence = MeanConfidence(NamedRowsOf(cm))

C14_Witness ==
  /\ SummaryReturned
  /\ \E cm \in Range(vOut.materials) :
       /\ cm.sources = <<"a.pdf", "a.pdf", "b.pdf">>
       /\ cm.confidence = [num |-> 2, den |-> 3]

\* C15: the sources of a consolidated material are the document names of the
\* entries merged into it, one per entry, in processing order; the list is
\* not empty and starts with the document where the key was first seen.
C15_Theorem ==
  SummaryReturned =>
    \A cm \in Range(vOut.materials) :
      /\ cm.sources # <<>>
      /\ cm.sources = [k \in 1..Len(NamedRowsOf(cm)) |-> NamedRowsOf(cm)[k].fileName]

C15_Witness ==
  /\ SummaryReturned
  /\ \E cm \in Range(vOut.materials) : cm.sources = <<"a.pdf", "b.pdf", "b.pdf">>

\* C16: the function returns null exactly when no record of the list is
\* relevant; with a relevant record it returns a summary, even an empty one.
C16_Theorem ==
  vDone => (vOut.isNull <=> \A k \in 1..Len(results) : ~results[k].isRoofRelated)

C16_Witness ==
  /\ SummaryReturned
  /\ Len(results) = 2
  /\ ~results[1].isRoofRelated
  /\ results[1].materials # <<>>
  /\ vOut.materials = <<>>
  /\ vOut.totalArea = 0

\* remove the entries whose name is not a non-empty string
WithoutInvalid(rs) ==
  [k \in 1..Len(rs) |-> [rs[k] EXCEPT !.materials = SelectSeq(@, ValidEntry)]]

\* C17: entries whose name is not a non-empty string are skipped: the summary
\* is the one of the list without them, and no error is raised.
C17_Claim ==
  vDone => vOut = getConsolidatedSummary(WithoutInvalid(results))

\* C18: in a returned summary roofPlanCount is the number of relevant records
\* and totalPlanCount the length of the list, so 1 <= roofPlanCount <=
\* totalPlanCount; the result list itself is left unchanged.
C18_Theorem ==
  /\ [](SummaryReturned =>
          /\ vOut.roofPlanCount = Cardinality({k \in 1..Len(results) : results[k].isRoofRelated})
          /\ vOut.totalPlanCount = Len(results)
          /\ 1 <= vOut.roofPlanCount
          /\ vOut.roofPlanCount <= vOut.totalPlanCount)
  /\ [][results' = results]_vars

C18_Witness ==
  /\ SummaryReturned
  /\ vOut.roofPlanCount = 1
  /\ vOut.totalPlanCount = 2
  /\ ~results[2].isRoofRelated

(***************************************************************************)
(* Properties of the parts sent to the engine.                             *)
(***************************************************************************)
\* the parts that carry a document
DocumentParts == SelectSeq(vOut, LAMBDA p : p.inlineData)

\* C20: the documents sent to the engine are the documents of the batch, each
\* exactly once: the others first, in batch order, then the target last,
\* followed by the prompt.
C20_Theorem ==
  vDone =>
    LET n == Len(vIn.allFiles)
        docs == DocumentParts
    IN /\ Len(docs) = n
       /\ \A j \in 0..(n - 1) : Cardinality({k \in 1..Len(docs) : docs[k].source = j}) = 1
       /\ \A k \in 1..Len(docs) : docs[k].data = fileToBase64(vIn.allFiles[docs[k].source + 1])
       /\ \A k \in 1..(Len(docs) - 2) : docs[k].source < docs[k + 1].source
       /\ docs[Len(docs)].source = vIn.targetIndex
       /\ Len(vOut) = n + 1
       /\ vOut[n + 1] = TextPart

C20_Witness ==
  /\ vDone
  /\ Len(vIn.allFiles) = 3
  /\ vIn.targetIndex = 1
  /\ Len(vOut) = 4
  /\ vOut[1].source = 0
  /\ vOut[2].source = 2
  /\ vOut[3].source = 1

(***************************************************************************)
(* Properties of the sequential context.                                   *)
(***************************************************************************)
\* the positions of the relevant records among rs, in order
RECURSIVE RelevantPositions(_, _)
RelevantPositions(rs, k) ==
  IF k > Len(rs) THEN <<>>
  ELSE (IF rs[k].isRoofRelated THEN <<k>> ELSE <<>>) \o RelevantPositions(rs, k + 1)

\* C21: the context passed on for the document at index i has one block for
\* each relevant record of documents 0..i-1, in batch order, and nothing
\* else; it is empty when there is no such record or contextMode is off.
C21_Theorem ==
  pc = "awaitEngine" =>
    LET prior == RelevantPositions(allResults, 1) IN
    /\ Len(allResults) = i
    /\ \A k \in 1..i : allResults[k].fileName = runFiles[k]
    /\ IF vIn.contextMode
         THEN /\ Len(vOut) = Len(prior)
              /\ \A k \in 1..Len(prior) :
                   /\ vOut[k].document = k
                   /\ vOut[k].fileName = allResults[prior[k]].fileName
                   /\ vOut[k].documentType = allResults[prior[k]].documentType
                   /\ vOut[k].scale = allResults[prior[k]].scale
                   /\ vOut[k].materialsFound = allResults[prior[k]].materials
         ELSE vOut = <<>>

C21_Witness ==
  /\ pc = "awaitEngine"
  /\ i = 2
  /\ vIn.contextMode
  /\ ~allResults[1].isRoofRelated
  /\ allResults[2].isRoofRelated
  /\ Len(vOut) = 1
  /\ vOut[1].fileName = runFiles[2]

(***************************************************************************)
(* Properties of the interpretation step.                                  *)
(***************************************************************************)
\* C22: a record is returned only if the response text is not empty, parses
\* and has every required field; in every other case the step throws.
C22_Claim ==
  vDone =>
    (~vOut.threw <=> vIn.text = "object" /\ vIn.fields = AnalysisResultFields)

(***************************************************************************)
(* Properties of exportToCSV.                                              *)
(***************************************************************************)
RECURSIVE SumSeq(_)
SumSeq(ns) == IF ns = <<>> THEN 0 ELSE Head(ns) + SumSeq(Tail(ns))

\* C23: the exported file has one data row per material entry of the relevant
\* documents, in document order and then material order, and none from an
\* irrelevant document; the row count is the sum of materials.length over the
\* relevant documents.
C23_Theorem ==
  vDone /\ vOut.exported =>
    LET rows == RowsOf(results) IN
    /\ Len(vOut.rows) = SumSeq([k \in 1..Len(results) |->
                                  IF results[k].isRoofRelated
                                    THEN Len(results[k].materials) ELSE 0])
    /\ Len(vOut.rows) = Len(rows)
    /\ \A k \in 1..Len(rows) : vOut.rows[k] = CsvRow(rows[k].m, rows[k].fileName)

C23_Witness ==
  /\ vDone
  /\ vOut.exported
  /\ Len(results) = 2
  /\ ~results[1].isRoofRelated
  /\ Len(results[1].materials) = 1
  /\ Len(results[2].materials) = 2
  /\ Len(vOut.rows) = 2
  /\ vOut.rows[1].fileName = "b.pdf"
  /\ vOut.rows[1].material # vOut.rows[2].material

(***************************************************************************)
(* Further properties of the batch run.                                    *)
(***************************************************************************)
Recommendations == {"use_ai", "use_python", "manual_review"}

\* C24: when the availability probe reports ok for a relevant document with a
\* total area, the record appended for it carries a validation record with
\* pythonUsed = true and a recommendation.
C24_Claim ==
  [][ProbeStep /\ pending.probe = "ok" =>
       /\ pc' # "failed"
       /\ Len(results') = i + 1
       /\ results'[i + 1].validation.present
       /\ results'[i + 1].validation.pythonUsed
       /\ results'[i + 1].validation.recommendation \in Recommendations]_vars

(***************************************************************************)
(* Further properties of validateAreaCalculation.                          *)
(***************************************************************************)
\* the result for an absent secondary estimate
AbsentResult == ValidationResult(TRUE, 0, 0, FZero, "use_ai", UnavailableMessage)

\* C25: a negative Python area gives the result of an absent Python result, a
\* negative AI area gives the result of the AI area 0, and the reported
\* differencePercent is never negative.
C25_Claim ==
  vDone =>
    /\ vIn.pythonResult.hasTotal /\ vIn.pythonResult.total_area_m2 < 0
         => vOut = AbsentResult
    /\ vIn.aiArea < 0 /\ ~(vIn.pythonResult.hasTotal /\ vIn.pythonResult.total_area_m2 < 0)
         => vOut = validateAreaCalculation(0, vIn.pythonResult, vIn.tolerancePercent)
    /\ vOut.differencePercent.sign = 0

RunEnds == processing /\ ~processing'

C27_EndState ==
  RunEnds =>
    /\ analysisStage' = NoStage
    /\ \/ /\ pc' = "completed"
          /\ Len(results') = Len(runFiles)
          /\ \A k \in 1..Len(runFiles) : results'[k].fileName = runFiles[k]
          /\ error' = error
       \/ /\ pc' = "failed"
          /\ error' # Null

\* C27: every run that has started eventually leaves Running, provided every
\* external call returns or fails; it ends completed, with the records of all
\* N documents published and no error set by it, or failed with an error set;
\* either way the processing flag is cleared and the progress text is empty.
\* (Always eventually not processing is processing ~> ~processing.)
C27_Theorem ==
  /\ []<>~processing
  /\ [][C27_EndState]_vars

C27_Witness ==
  /\ pc = "completed"
  /\ ~processing
  /\ analysisStage = NoStage
  /\ Len(results) = 2
  /\ error = Null

(***************************************************************************)
(* The published records against the batch.                                *)
(***************************************************************************)
\* C28: whenever the result list is non-empty it is no longer than the batch
\* and its i-th record is the analysis of the i-th file currently in the batch.
C28_Claim ==
  results # <<>> =>
    /\ Len(results) <= Len(files)
    /\ \A k \in 1..Len(results) : results[k].fileName = files[k]

(***************************************************************************)
(* Reachability of manual_review.                                          *)
(***************************************************************************)
\* C29: manual_review is returned only when the percent difference
\* 100 * |primary - secondary| / secondary is above the tolerance and at most
\* 20 and the shape is not a simple rectangle; with a tolerance of 20 or more
\* it is never returned.
C29_Claim ==
  vDone /\ vOut.recommendation = "manual_review"
    => /\ PercentDeltaGt(vIn, vIn.tolerancePercent)
       /\ PercentDeltaLeq(vIn, 20)
       /\ ~vIn.pythonResult.is_simple_rectangle
       /\ vIn.tolerancePercent < 20

(***************************************************************************)
(* The backend server (Express): GET /api/python/health and                *)
(* POST /api/python/calculate-area.  vIn holds the requests being served,  *)
(* vOut the state of the server process.  Each handler spawns a child      *)
(* process and answers from the listeners of its 'close' and 'error'       *)
(* events; Node may emit either event or both (a failed spawn emits        *)
(* 'error' and then 'close').                                              *)
(***************************************************************************)
Request(endpoint, file, scaleIsString) ==
  [endpoint |-> endpoint, file |-> file, scaleIsString |-> scaleIsString,
   stage |-> "received", error |-> FALSE, close |-> FALSE,
   responses |-> 0, status |-> 0]

\* req.file is set by upload.single('pdf') when the form has the file, which
\* multer has then stored in the uploads directory; a repeated scale field
\* makes req.body.scale an array
Requests ==
  {Request("health", "none", TRUE)}
  \cup {Request("calculate-area", f, s) : f \in {"none", "stored"}, s \in BOOLEAN}

\* res.headersSent
HeadersSent(req) == req.responses > 0

\* res.status(status).json(body): sends the response; once one has been sent
\* it throws ERR_HTTP_HEADERS_SENT and nothing more goes to the client
json(req, status) ==
  IF HeadersSent(req) THEN req
  ELSE [req EXCEPT !.responses = 1, !.status = status]

\* fs.unlink(tempFilePath, ...): a second unlink fails and is only logged
unlink(req) == [req EXCEPT !.file = IF @ = "stored" THEN "deleted" ELSE @]

\* an exception thrown in a listener is caught by nothing: the process ends
AfterListener(req) == IF HeadersSent(req) THEN "crashed" ELSE "listening"

InitBackend ==
  /\ Idle
  /\ vIn \in [1..MaxRequests -> Requests]
  /\ vOut = "listening"
  /\ vDone = FALSE

\* app.get('/api/python/health'): spawn(PYTHON_CMD, ['--version'])
HealthHandler(r) ==
  /\ vOut = "listening"
  /\ vIn[r].endpoint = "health"
  /\ vIn[r].stage = "received"
  /\ vIn' = [vIn EXCEPT ![r].stage = "spawned"]
  /\ UNCHANGED <<vOut, vDone, appVars, runVars>>

\* app.post('/api/python/calculate-area') up to the registration of the
\* listeners, and its catch block when spawn throws on an argument that is
\* not a string
CalculateAreaHandler(r) ==
  /\ vOut = "listening"
  /\ vIn[r].endpoint = "calculate-area"
  /\ vIn[r].stage = "received"
  /\ vIn' = [vIn EXCEPT ![r] =
       IF @.file = "none" THEN [json(@, 400) EXCEPT !.stage = "returned"]
       ELSE IF ~@.scaleIsString THEN [json(unlink(@), 500) EXCEPT !.stage = "returned"]
       ELSE [@ EXCEPT !.stage = "spawned"]]
  /\ UNCHANGED <<vOut, vDone, appVars, runVars>>

\* pythonProcess.on('close', (code) => ...) of either handler
OnClose(req, code, parses) ==
  IF req.endpoint = "health"
    THEN json(req, IF code = 0 THEN 200 ELSE 503)
    ELSE json(unlink(req), IF code = 0 /\ parses THEN 200 ELSE 500)

\* pythonProcess.on('error', (error) => ...) of either handler
OnError(req) ==
  IF req.endpoint = "health" THEN json(req, 503) ELSE json(unlink(req), 500)

ChildClose(r) ==
  /\ vOut = "listening"
  /\ vIn[r].stage = "spawned"
  /\ ~vIn[r].close
  /\ \E code \in {0, 1}, parses \in BOOLEAN :
       vIn' = [vIn EXCEPT ![r] = [OnClose(@, code, parses) EXCEPT !.close = TRUE]]
  /\ vOut' = AfterListener(vIn[r])
  /\ UNCHANGED <<vDone, appVars, runVars>>

ChildError(r) ==
  /\ vOut = "listening"
  /\ vIn[r].stage = "spawned"
  /\ ~vIn[r].error
  /\ vIn' = [vIn EXCEPT ![r] = [OnError(@) EXCEPT !.error = TRUE]]
  /\ vOut' = AfterListener(vIn[r])
  /\ UNCHANGED <<vDone, appVars, runVars>>

NextBackend ==
  \E r \in 1..MaxRequests :
    \/ HealthHandler(r)
    \/ CalculateAreaHandler(r)
    \/ ChildClose(r)
    \/ ChildError(r)

SpecBackend == InitBackend /\ [][NextBackend]_vars

\* nothing more will happen for the request: its handler has returned the
\* response itself, an event of its child has been handled, or the server
\* process has ended
Settled(req) ==
  \/ req.stage = "returned"
  \/ req.error
  \/ req.close
  \/ req.stage = "spawned" /\ vOut = "crashed"

\* C30: every request to the health and calculate-area endpoints gets exactly
\* one response, in whatever order the 'error' and 'close' events of the child
\* process fire, and its uploaded temporary file is deleted on every
\* completion path.
C30_Claim ==
  \A r \in 1..MaxRequests :
    Settled(vIn[r]) => vIn[r].responses = 1 /\ vIn[r].file # "stored"

====
